---- MODULE Spec2Model ----
(***************************************************************************)
(* Bearer-token authentication of backend/auth.py: the process-wide        *)
(* signing-key cache (_signing_keys_cache), get_signing_keys and           *)
(* verify_token, one step per access to the shared cache so that           *)
(* concurrent verifications interleave statement by statement.             *)
(*                                                                         *)
(* Spec      one verification at a time (thread 1 only); the published     *)
(*           key set rotates between verifications.                        *)
(* SpecConc  two verifications interleaved.                                *)
(***************************************************************************)
EXTENDS Integers, FiniteSets, Sequences, TLC

\* ---------------------------------------------------------------- bounds
MaxPeriods == 1

\* ------------------------------------------------------ program constants
CACHE_TTL == 3600

ISSUER_V1 == "https://sts.windows.net/T1/"
ISSUER_V2 == "https://login.microsoftonline.com/T1/v2.0"
AUDIENCE == "api://C1"

Threads == {1, 2}

\* Instants the clock (time.time()) is observed at: around multiples of the TTL.
MaxNow == MaxPeriods * CACHE_TTL + 1
Instants == {i \in 0..MaxNow : i % CACHE_TTL \in {0, 1, CACHE_TTL - 1}}

\* ------------------------------------------------------------ JSON values
\* The value of _signing_keys_cache["keys"] / response.json(): None, or a
\* dict that may or may not carry the "keys" member (a set of kids).
NoneVal == [kind |-> "None", has_keys |-> FALSE, kids |-> {}]
EmptyDict == [kind |-> "dict", has_keys |-> FALSE, kids |-> {}]
Jwks(S) == [kind |-> "dict", has_keys |-> TRUE, kids |-> S]

\* Documents the key-publication endpoint may serve.  "KX" is in none of them.
Docs == {EmptyDict, Jwks({"K1"}), Jwks({"K2"})}

\* Python truthiness of the cached value: None and {} are falsy.
Truthy(v) == v.kind = "dict" /\ v.has_keys

\* jwks.get("keys", [])
KeysOf(v) == IF v.has_keys THEN v.kids ELSE {}

\* for key in jwks.get("keys", []): if key.get("kid") == key_id: ... break
FindKey(v, key_id) == IF key_id \in KeysOf(v) THEN key_id ELSE "None"

\* The interleaved specification observes the clock at the multiples of the
\* TTL and rotates between the two one-key documents.
ConcInstants == {i \in Instants : i % CACHE_TTL = 0}
ConcDocs == {Jwks({"K1"}), Jwks({"K2"})}

\* ----------------------------------------------------------------- tokens
\* header: "BAD" = get_unverified_header raises JWTError, "NOKID" = header
\* without (or with empty) kid, otherwise the kid.
Headers == {"BAD", "NOKID", "K1", "K2", "KX"}
NoIss == "<no iss>"
NoAud == "<no aud>"
Issuers == {ISSUER_V1, ISSUER_V2, "https://evil.example/", NoIss}
Auds == {AUDIENCE, "api://other", NoAud}
ExpEarly == CACHE_TTL - 1
ExpLate == MaxNow + 1

\* sig_ok: the signature verifies (RS256) against the key material published
\* under the header's kid (no key, no valid signature).
AllTokens == [kid : Headers, sig_ok : BOOLEAN, exp : {ExpEarly, ExpLate},
              aud : Auds, iss : Issuers]

\* The tokens verified: every payload for the kids some document carries;
\* the headers that select no key never reach a decode, so only their
\* issuer varies.
Tokens == {tok \in AllTokens :
             tok.kid \in {"BAD", "NOKID", "KX"} =>
                 ~tok.sig_ok /\ tok.exp = ExpLate /\ tok.aud = AUDIENCE}

GoodToken(k) == [kid |-> k, sig_ok |-> (k \in {"K1", "K2"}), exp |-> ExpLate,
                 aud |-> AUDIENCE, iss |-> ISSUER_V2]

\* Token of the interleaved specification: the payload stage is sequential
\* code, and the key set rotating between K1 and K2 makes the same token
\* hit, miss and miss again.
ConcTokens == {GoodToken("K1")}

\* -------------------------------------------------------------- responses
NoResult == [outcome |-> "none", status |-> 0, detail |-> "", kind |-> "",
             raised |-> 0, claims |-> "none"]

\* raise HTTPException(status, detail) that leaves verify_token unchanged.
Raised(status, detail, kind) ==
    [outcome |-> "Rejected", status |-> status, detail |-> detail,
     kind |-> kind, raised |-> status, claims |-> "none"]

\* The two handlers that close verify_token's try block.  HTTPException is
\* an Exception and not a JWTError, so every HTTPException raised inside the
\* try block lands in the second handler.
ExceptClause(exc, status, kind) ==
    IF exc = "JWTError"
    THEN [outcome |-> "Rejected", status |-> 401,
          detail |-> "Invalid or expired token", kind |-> kind,
          raised |-> 401, claims |-> "none"]
    ELSE [outcome |-> "Rejected", status |-> 401,
          detail |-> "Authentication failed", kind |-> kind,
          raised |-> status, claims |-> "none"]

\* return payload
Verified == [outcome |-> "Verified", status |-> 200, detail |-> "",
             kind |-> "", raised |-> 0, claims |-> "verified"]

\* jose.jwt.decode(token, key, algorithms=["RS256"], audience=AUDIENCE,
\* issuer=expected_issuer, options={verify_signature, verify_exp}):
\* the signature, exp (rejected when exp < now), aud (checked when the
\* claim is present; require_aud is off by default) and iss.
DecodeVerified(tok, audience, issuer, tnow) ==
    /\ tok.sig_ok
    /\ ~(tok.exp < tnow)
    /\ (tok.aud = NoAud \/ tok.aud = audience)
    /\ tok.iss = issuer

\* ------------------------------------------------------------------ state
VARIABLES now, published, cache, config, th, wire

vars == <<now, published, cache, config, th, wire>>

\* entry (in a thread) is a ghost: the cache as get_signing_keys found it.
\* keys_time is a ghost: the current_time of the fetch that wrote keys.
InitCache == [keys |-> NoneVal, expires_at |-> 0, keys_time |-> 0]

IdleThread ==
    [pc |-> "idle", token |-> GoodToken("K1"), ret |-> 1, current_time |-> 0,
     jwks |-> NoneVal, keys |-> NoneVal, signing_key |-> "None",
     result |-> NoResult,
     entry |-> InitCache,
     gets |-> 0, fetches |-> 0, refreshes |-> 0, invals |-> 0,
     stale |-> FALSE,
     verified_decode |-> FALSE, checked_at |-> 0]

Init ==
    /\ now = 0
    /\ published \in Docs
    /\ cache = InitCache
    /\ config \in [tenant : BOOLEAN, client : BOOLEAN]
    /\ th = [t \in Threads |-> IdleThread]
    /\ wire = {}

\* ------------------------------------------------------------ environment
Tick(instants) ==
    /\ \E i \in instants : i > now /\ now' = i
    /\ UNCHANGED <<published, cache, config, th, wire>>

Rotate(docs) ==
    /\ \E d \in docs : d # published /\ published' = d
    /\ UNCHANGED <<now, cache, config, th, wire>>

\* ------------------------------------------------------------ verify_token
\* A request enters verify_token(token).
Start(t, toks) ==
    /\ th[t].pc = "idle"
    /\ \E tok \in toks :
         th' = [th EXCEPT ![t] = [IdleThread EXCEPT !.pc = "v106", !.token = tok]]
    /\ UNCHANGED <<now, published, cache, config, wire>>

\* Mutant of ConfigCheck: only the tenant identifier is tested.
ConfigCheck_TenantOnly(t) ==
    /\ th[t].pc = "v106"
    /\ IF ~config.tenant
       THEN th' = [th EXCEPT ![t].pc = "done",
                             ![t].result = Raised(500,
                                 "Server configuration error - Azure AD not configured",
                                 "ConfigError")]
       ELSE th' = [th EXCEPT ![t].pc = "g59", ![t].ret = 1]
    /\ UNCHANGED <<now, published, cache, config, wire>>

\* if not AZURE_TENANT_ID or not AZURE_CLIENT_ID: raise HTTPException(500)
\* (outside the try block); otherwise jwks = get_signing_keys().
ConfigCheck(t) ==
    /\ th[t].pc = "v106"
    /\ IF ~config.tenant \/ ~config.client
       THEN th' = [th EXCEPT ![t].pc = "done",
                             ![t].result = Raised(500,
                                 "Server configuration error - Azure AD not configured",
                                 "ConfigError")]
       ELSE th' = [th EXCEPT ![t].pc = "g59", ![t].ret = 1]
    /\ UNCHANGED <<now, published, cache, config, wire>>

\* ------------------------------------------------------- get_signing_keys
\* Ghost: the cache holds an unexpired key set that lacks the token's kid.
StaleFor(tok, tnow) ==
    /\ Truthy(cache.keys)
    /\ tnow < cache.expires_at
    /\ tok.kid \notin {"BAD", "NOKID"}
    /\ tok.kid \notin KeysOf(cache.keys)

\* current_time = time.time()  (gets, a ghost, counts the calls of
\* get_signing_keys the verification has made)
ReadClock(t) ==
    /\ th[t].pc = "g59"
    /\ th' = [th EXCEPT ![t].pc = "g62", ![t].current_time = now,
                        ![t].gets = th[t].gets + 1,
                        ![t].entry = cache,
                        ![t].stale = IF th[t].ret = 1
                                     THEN StaleFor(th[t].token, now)
                                     ELSE th[t].stale]
    /\ UNCHANGED <<now, published, cache, config, wire>>

\* if _signing_keys_cache["keys"] and ...   (left operand)
CheckKeys(t) ==
    /\ th[t].pc = "g62"
    /\ th' = [th EXCEPT ![t].pc = IF Truthy(cache.keys) THEN "g62b" ELSE "g69"]
    /\ UNCHANGED <<now, published, cache, config, wire>>

\* ... and current_time < _signing_keys_cache["expires_at"]   (right operand)
CheckExpiry(t) ==
    /\ th[t].pc = "g62b"
    /\ th' = [th EXCEPT ![t].pc = IF th[t].current_time < cache.expires_at
                                  THEN "g64" ELSE "g69"]
    /\ UNCHANGED <<now, published, cache, config, wire>>

\* Where get_signing_keys returns to: the first call continues at the header
\* inspection, the call after the invalidation at the second scan.
AfterGet(t) == IF th[t].ret = 1 THEN "v118" ELSE "v142"

\* return _signing_keys_cache["keys"]   (the frame of get_signing_keys, its
\* current_time and keys, ends with the return)
ReturnCached(t) ==
    /\ th[t].pc = "g64"
    /\ th' = [th EXCEPT ![t].pc = AfterGet(t), ![t].jwks = cache.keys,
                        ![t].current_time = 0, ![t].entry = InitCache]
    /\ UNCHANGED <<now, published, cache, config, wire>>

\* response = requests.get(JWKS_URL, timeout=10); raise_for_status();
\* keys = response.json()  -- succeeds with the published document
FetchOk(t) ==
    /\ th[t].pc = "g69"
    /\ th' = [th EXCEPT ![t].pc = "g74", ![t].keys = published,
                        ![t].fetches = th[t].fetches + 1,
                        ![t].refreshes = th[t].refreshes +
                                          (IF th[t].ret = 2 THEN 1 ELSE 0)]
    /\ UNCHANGED <<now, published, cache, config, wire>>

\* Mutant of FetchFail: the failed fetch also drops what the cache held.
FetchFail_ClearsCache(t) ==
    /\ th[t].pc = "g69"
    /\ cache' = InitCache
    /\ th' = [th EXCEPT ![t].pc = "done",
                        ![t].fetches = th[t].fetches + 1,
                        ![t].refreshes = th[t].refreshes +
                                          (IF th[t].ret = 2 THEN 1 ELSE 0),
                        ![t].result = ExceptClause("HTTPException", 503,
                                                   "FetchError")]
    /\ UNCHANGED <<now, published, config, wire>>

\* Mutant of FetchFail: the failed fetch is tried again.
FetchFail_Retry(t) ==
    /\ th[t].pc = "g69"
    /\ th' = [th EXCEPT ![t].pc = "g59",
                        ![t].fetches = th[t].fetches + 1,
                        ![t].refreshes = th[t].refreshes +
                                          (IF th[t].ret = 2 THEN 1 ELSE 0)]
    /\ UNCHANGED <<now, published, cache, config, wire>>

\* ... or raises requests.RequestException (transport error, timeout,
\* non-2xx): get_signing_keys raises HTTPException(503), inside the try
\* block of verify_token.
FetchFail(t) ==
    /\ th[t].pc = "g69"
    /\ th' = [th EXCEPT ![t].pc = "done",
                        ![t].fetches = th[t].fetches + 1,
                        ![t].refreshes = th[t].refreshes +
                                          (IF th[t].ret = 2 THEN 1 ELSE 0),
                        ![t].result = ExceptClause("HTTPException", 503,
                                                   "FetchError")]
    /\ UNCHANGED <<now, published, cache, config, wire>>

\* _signing_keys_cache["keys"] = keys
StoreKeys(t) ==
    /\ th[t].pc = "g74"
    /\ cache' = [cache EXCEPT !.keys = th[t].keys,
                              !.keys_time = th[t].current_time]
    /\ th' = [th EXCEPT ![t].pc = "g75"]
    /\ UNCHANGED <<now, published, config, wire>>

\* _signing_keys_cache["expires_at"] = current_time + CACHE_TTL; return keys
StoreExpiry(t) ==
    /\ th[t].pc = "g75"
    /\ cache' = [cache EXCEPT !.expires_at = th[t].current_time + CACHE_TTL]
    /\ th' = [th EXCEPT ![t].pc = AfterGet(t), ![t].jwks = th[t].keys,
                        ![t].keys = NoneVal, ![t].current_time = 0,
                        ![t].entry = InitCache]
    /\ UNCHANGED <<now, published, config, wire>>

\* ----------------------------------------------- verify_token, continued
\* unverified_header = jwt.get_unverified_header(token); key_id = .get("kid");
\* if not key_id: raise HTTPException(401); first scan of jwks for key_id
\* (jwks.get on None raises AttributeError).
InspectHeader(t) ==
    /\ th[t].pc = "v118"
    /\ LET tok == th[t].token
           key == FindKey(th[t].jwks, tok.kid) IN
       th' = IF tok.kid = "BAD"
             THEN [th EXCEPT ![t].pc = "done",
                             ![t].result = ExceptClause("JWTError", 401,
                                                        "MalformedToken")]
             ELSE IF tok.kid = "NOKID"
             THEN [th EXCEPT ![t].pc = "done",
                             ![t].result = ExceptClause("HTTPException", 401,
                                                        "MalformedToken")]
             ELSE IF th[t].jwks.kind = "None"
             THEN [th EXCEPT ![t].pc = "done",
                             ![t].result = ExceptClause("AttributeError", 0,
                                                        "InternalError")]
             ELSE IF key # "None"
             THEN [th EXCEPT ![t].pc = "v155", ![t].signing_key = key]
             ELSE [th EXCEPT ![t].pc = "v138"]
    /\ UNCHANGED <<now, published, cache, config, wire>>

\* Mutant of ClearKeys: the invalidation leaves the cached key set in place
\* and resets the expiry only.
ClearKeys_KeepsKeys(t) ==
    /\ th[t].pc = "v138"
    /\ th' = [th EXCEPT ![t].pc = "v139"]
    /\ UNCHANGED <<now, published, cache, config, wire>>

\* Mutant of ClearKeys: get_signing_keys is called again without the cache
\* having been invalidated.
ClearKeys_NoInvalidate(t) ==
    /\ th[t].pc = "v138"
    /\ th' = [th EXCEPT ![t].pc = "g59", ![t].ret = 2]
    /\ UNCHANGED <<now, published, cache, config, wire>>

\* if not signing_key: _signing_keys_cache["keys"] = None
ClearKeys(t) ==
    /\ th[t].pc = "v138"
    /\ cache' = [cache EXCEPT !.keys = NoneVal, !.keys_time = 0]
    /\ th' = [th EXCEPT ![t].pc = "v139"]
    /\ UNCHANGED <<now, published, config, wire>>

\* _signing_keys_cache["expires_at"] = 0; jwks = get_signing_keys()
ClearExpiry(t) ==
    /\ th[t].pc = "v139"
    /\ cache' = [cache EXCEPT !.expires_at = 0]
    /\ th' = [th EXCEPT ![t].pc = "g59", ![t].ret = 2,
                        ![t].invals = th[t].invals + 1]
    /\ UNCHANGED <<now, published, config, wire>>

\* Mutant of ScanAgain: a second miss invalidates and fetches once more.
ScanAgain_Retry(t) ==
    /\ th[t].pc = "v142"
    /\ LET key == FindKey(th[t].jwks, th[t].token.kid) IN
       th' = IF key # "None"
             THEN [th EXCEPT ![t].pc = "v155", ![t].signing_key = key]
             ELSE [th EXCEPT ![t].pc = "v138"]
    /\ UNCHANGED <<now, published, cache, config, wire>>

\* second scan; if not signing_key: raise HTTPException(401,
\* "Invalid token signature")
ScanAgain(t) ==
    /\ th[t].pc = "v142"
    /\ LET key == FindKey(th[t].jwks, th[t].token.kid) IN
       th' = IF th[t].jwks.kind = "None"
             THEN [th EXCEPT ![t].pc = "done",
                             ![t].result = ExceptClause("AttributeError", 0,
                                                        "InternalError")]
             ELSE IF key # "None"
             THEN [th EXCEPT ![t].pc = "v155", ![t].signing_key = key]
             ELSE [th EXCEPT ![t].pc = "done",
                             ![t].result = ExceptClause("HTTPException", 401,
                                                        "UnknownSigningKey")]
    /\ UNCHANGED <<now, published, cache, config, wire>>

\* Mutant of Decode: the legacy issuer form is not accepted.
Decode_V2Only(t) ==
    /\ th[t].pc = "v155"
    /\ LET tok == th[t].token
           token_issuer == tok.iss IN
       th' = IF token_issuer # ISSUER_V2
             THEN [th EXCEPT ![t].pc = "done",
                             ![t].result = ExceptClause("HTTPException", 401,
                                                        "UnknownIssuer")]
             ELSE IF DecodeVerified(tok, AUDIENCE, token_issuer, now)
             THEN [th EXCEPT ![t].pc = "done", ![t].verified_decode = TRUE,
                             ![t].checked_at = now,
                             ![t].result = Verified]
             ELSE [th EXCEPT ![t].pc = "done", ![t].verified_decode = TRUE,
                             ![t].checked_at = now,
                             ![t].result = ExceptClause("JWTError", 401,
                                                        "InvalidToken")]
    /\ UNCHANGED <<now, published, cache, config, wire>>

\* unverified decode to read iss, choice of expected_issuer, verified decode,
\* return payload.
Decode(t) ==
    /\ th[t].pc = "v155"
    /\ LET tok == th[t].token
           token_issuer == tok.iss IN
       th' = IF token_issuer \notin {ISSUER_V1, ISSUER_V2}
             THEN [th EXCEPT ![t].pc = "done",
                             ![t].result = ExceptClause("HTTPException", 401,
                                                        "UnknownIssuer")]
             ELSE IF DecodeVerified(tok, AUDIENCE, token_issuer, now)
             THEN [th EXCEPT ![t].pc = "done", ![t].verified_decode = TRUE,
                             ![t].checked_at = now,
                             ![t].result = Verified]
             ELSE [th EXCEPT ![t].pc = "done", ![t].verified_decode = TRUE,
                             ![t].checked_at = now,
                             ![t].result = ExceptClause("JWTError", 401,
                                                        "InvalidToken")]
    /\ UNCHANGED <<now, published, cache, config, wire>>

\* The kinds of rejection a token itself causes.
TokenKinds == {"MalformedToken", "UnknownSigningKey", "UnknownIssuer",
               "InvalidToken"}

\* get_current_user passes the HTTPException on: the response is delivered
\* and the request's frame is gone.  wire (a ghost) collects the distinct
\* (status, detail) responses sent for the rejections a token causes.
Return(t) ==
    /\ th[t].pc = "done"
    /\ th' = [th EXCEPT ![t] = IdleThread]
    /\ wire' = IF th[t].result.kind \in TokenKinds
               THEN wire \cup {<<th[t].result.status, th[t].result.detail>>}
               ELSE wire
    /\ UNCHANGED <<now, published, cache, config>>

\* ---------------------------------------------------------- specifications
Step(t) ==
    \/ ConfigCheck(t)
    \/ ReadClock(t)
    \/ CheckKeys(t)
    \/ CheckExpiry(t)
    \/ ReturnCached(t)
    \/ FetchOk(t)
    \/ FetchFail(t)
    \/ StoreKeys(t)
    \/ StoreExpiry(t)
    \/ InspectHeader(t)
    \/ ClearKeys(t)
    \/ ClearExpiry(t)
    \/ ScanAgain(t)
    \/ Decode(t)
    \/ Return(t)

\* One verification at a time.
Next ==
    \/ Tick(Instants)
    \/ (th[1].pc = "idle" /\ Rotate(Docs))
    \/ Start(1, Tokens)
    \/ Step(1)

Spec == Init /\ [][Next]_vars

\* Request-parallel: any number of verifications in flight.
NextConc ==
    \/ Tick(ConcInstants)
    \/ Rotate(ConcDocs)
    \/ \E t \in Threads : Start(t, ConcTokens)
    \/ \E t \in Threads : Step(t)

SpecConc == Init /\ [][NextConc]_vars

\* ================================================================= claims
Done(t) == th[t].pc = "done"
ConfigOk == config.tenant /\ config.client
Accepted == {ISSUER_V1, ISSUER_V2}

\* C1: a failed key-set fetch (initial get or refresh) reaches the caller
\* of verify_token as HTTP 503, never as a 401.
C1_FetchFailureIs503 ==
    \A t \in Threads :
        Done(t) /\ th[t].result.kind = "FetchError" =>
            th[t].result.status = 503

\* C2: with the tenant or the client identifier unset, every verify_token
\* call ends in the configuration error (500), no key-set fetch is made and
\* the cache is never touched.
C2_ConfigErrorFailsClosed ==
    ~ConfigOk =>
        /\ cache = InitCache
        /\ \A t \in Threads :
             /\ th[t].pc \in {"idle", "v106", "done"}
             /\ th[t].fetches = 0
             /\ Done(t) =>
                  /\ th[t].result.outcome = "Rejected"
                  /\ th[t].result.status = 500
                  /\ th[t].result.kind = "ConfigError"

\* C2 witness: a call with an otherwise valid token was refused with 500
\* while only the client identifier is unset.
C2_Witness ==
    /\ config.tenant /\ ~config.client
    /\ Done(1)
    /\ th[1].token = GoodToken("K1")
    /\ th[1].result.status = 500

\* C3: claims are returned only if the signature verifies against the key
\* selected by kid, the token is not past its expiry, its audience equals
\* AUDIENCE and its issuer is one of the two accepted strings; every other
\* call ends in a rejection without claims, and returned claims are those of
\* the verified decode.
C3_VerifiedOnlyIfValid ==
    \A t \in Threads :
        Done(t) =>
            /\ th[t].result.outcome \in {"Verified", "Rejected"}
            /\ th[t].result.outcome = "Rejected" => th[t].result.claims = "none"
            /\ th[t].result.outcome = "Verified" =>
                 /\ th[t].result.claims = "verified"
                 /\ th[t].verified_decode
                 /\ th[t].signing_key = th[t].token.kid
                 /\ th[t].token.sig_ok
                 /\ ~(th[t].token.exp < th[t].checked_at)
                 /\ th[t].token.aud = AUDIENCE
                 /\ th[t].token.iss \in Accepted

\* The token names a kid, and no document the endpoint serves carries it.
KidNeverPublished(tok) ==
    /\ tok.kid \notin {"BAD", "NOKID"}
    /\ \A d \in Docs : tok.kid \notin KeysOf(d)

\* Signature, audience and expiry are valid (the expiry up to this instant).
PayloadValid(tok) ==
    /\ tok.sig_ok
    /\ tok.aud = AUDIENCE
    /\ ~(tok.exp < now)

\* C4: a token whose kid is in no key set the endpoint returns is rejected
\* with UnknownSigningKey after exactly one invalidation followed by exactly
\* one refresh fetch, from every cache state; no call refreshes twice.
C4_UnknownKidOneRefresh ==
    \A t \in Threads :
        /\ th[t].invals <= 1
        /\ th[t].refreshes <= th[t].invals
        /\ ( /\ Done(t) /\ ConfigOk
             /\ KidNeverPublished(th[t].token)
             /\ th[t].result.kind # "FetchError" )
           => /\ th[t].result.outcome = "Rejected"
              /\ th[t].result.kind = "UnknownSigningKey"
              /\ th[t].invals = 1
              /\ th[t].refreshes = 1

\* C4 witness: such a token met an unexpired cached key set and was rejected
\* after the one refresh, which was the call's only fetch.
C4_Witness ==
    /\ Done(1)
    /\ th[1].token.kid = "KX"
    /\ th[1].stale
    /\ th[1].result.kind = "UnknownSigningKey"
    /\ th[1].fetches = 1 /\ th[1].refreshes = 1

\* C5: an otherwise valid token whose kid the unexpired cached key set lacks
\* and the published key set carries is Verified with exactly one fetch, the
\* refresh, and the cache then holds the fetched set.
C5_RotationRecovered ==
    \A t \in Threads :
        ( /\ Done(t) /\ ConfigOk
          /\ th[t].stale
          /\ th[t].token.kid \in KeysOf(published)
          /\ PayloadValid(th[t].token)
          /\ th[t].token.iss \in Accepted
          /\ th[t].result.kind # "FetchError" )
        => /\ th[t].result.outcome = "Verified"
           /\ th[t].fetches = 1
           /\ th[t].refreshes = 1
           /\ cache.keys = published
           /\ cache.keys = th[t].jwks
           /\ cache.expires_at = cache.keys_time + CACHE_TTL

\* C5 witness: a call that found K2 missing from the unexpired cached set
\* was Verified after one refresh.
C5_Witness ==
    /\ Done(1)
    /\ th[1].stale
    /\ th[1].token.kid = "K2"
    /\ th[1].result.outcome = "Verified"
    /\ th[1].refreshes = 1
    /\ cache.keys = Jwks({"K2"})

\* C6 as stated: a token with an accepted issuer and valid signature,
\* audience and expiry is Verified; a token with any other issuer is
\* rejected with UnknownIssuer and its verified decode is never attempted.
C6_IssuerDecides_Original ==
    \A t \in Threads :
        Done(t) /\ ConfigOk =>
            /\ (th[t].token.iss \in Accepted /\ PayloadValid(th[t].token))
                  => th[t].result.outcome = "Verified"
            /\ th[t].token.iss \notin Accepted
                  => /\ th[t].result.kind = "UnknownIssuer"
                     /\ ~th[t].verified_decode

\* C6 amended: a token with any other issuer is always rejected and its
\* verified decode never attempted; once the key named by the kid has been
\* selected from the key set, an accepted issuer with valid signature,
\* audience and expiry is Verified and any other issuer is rejected with
\* UnknownIssuer.
C6_IssuerDecides ==
    \A t \in Threads :
        Done(t) /\ ConfigOk =>
            /\ th[t].token.iss \notin Accepted
                  => /\ th[t].result.outcome = "Rejected"
                     /\ ~th[t].verified_decode
            /\ th[t].signing_key # "None" =>
                 /\ (th[t].token.iss \in Accepted /\ PayloadValid(th[t].token))
                       => th[t].result.outcome = "Verified"
                 /\ th[t].token.iss \notin Accepted
                       => th[t].result.kind = "UnknownIssuer"

\* C6 witness: a validly signed token without an issuer, its key selected,
\* was rejected with UnknownIssuer before any verified decode.
C6_Witness ==
    /\ Done(1)
    /\ th[1].signing_key = "K1"
    /\ th[1].token.sig_ok
    /\ th[1].token.iss = NoIss
    /\ th[1].result.kind = "UnknownIssuer"
    /\ ~th[1].verified_decode

\* C7: while the cache holds the result of a successful fetch at T (no
\* invalidation since), a get_signing_keys call before T + 3600 does not
\* fetch, and a call served from the cache is before T + 3600.
C7_CacheFreshness ==
    \A t \in Threads :
        /\ (th[t].pc = "g69" /\ cache.keys # NoneVal)
              => th[t].current_time >= cache.expires_at
        /\ th[t].pc = "g64" => th[t].current_time < cache.expires_at

\* C8: a get_signing_keys call whose fetch fails leaves the cached key set
\* and the expiry instant as the call found them.
C8_FailedFetchLeavesCache ==
    \A t \in Threads :
        Done(t) /\ th[t].result.kind = "FetchError" => cache = th[t].entry

\* C8 witness: the fetch failed on an expired, populated cache, which still
\* holds its key set.
C8_Witness ==
    /\ Done(1)
    /\ th[1].result.kind = "FetchError"
    /\ cache.keys = Jwks({"K1"})
    /\ th[1].entry = cache

\* C9: all rejections a token causes (malformed, unknown signing key,
\* unknown issuer, final-decode failure) are sent as one and the same
\* (status, detail) response.
C9_UniformRejection == Cardinality(wire) <= 1

Passed(t) ==
    LET pc == th[t].pc
        site == IF th[t].ret = 2 THEN 9 ELSE 0 IN
    CASE pc = "idle" -> 0
      [] pc = "v106" -> 1
      [] pc = "g59"  -> 2 + site
      [] pc = "g62"  -> 3 + site
      [] pc = "g62b" -> 4 + site
      [] pc = "g64"  -> 5 + site
      [] pc = "g69"  -> 5 + site
      [] pc = "g74"  -> 6 + site
      [] pc = "g75"  -> 7 + site
      [] pc = "v118" -> 8
      [] pc = "v138" -> 9
      [] pc = "v139" -> 10
      [] pc = "v142" -> 17
      [] pc = "v155" -> 18
      [] pc = "done" -> 19

\* C11: a verification makes at most two key-set fetches, at most one of
\* them for an empty or expired cache and at most one as the refresh after
\* a kid miss; a failed fetch ends the verification at once; and every step
\* of a verification moves it strictly forward through at most 19
\* positions, so it terminates.
C11_BoundedFetches ==
    /\ [](\A t \in Threads :
            /\ th[t].fetches <= 2
            /\ th[t].refreshes <= 1
            /\ th[t].fetches - th[t].refreshes <= 1
            /\ th[t].invals <= 1
            /\ th[t].result.kind = "FetchError" => Done(t))
    /\ [][\A t \in Threads :
            th[t].pc \notin {"idle", "done"} /\ th'[t] # th[t]
                => Passed(t)' > Passed(t)]_vars

\* A verification that fetched twice: once for the empty or expired cache
\* and once as the refresh, which failed.
C11_Witness ==
    /\ Done(1)
    /\ th[1].fetches = 2
    /\ th[1].refreshes = 1
    /\ th[1].result.kind = "FetchError"

Malformed(tok) == tok.kid \in {"BAD", "NOKID"}

\* C12: a token whose header cannot be parsed or has no kid is rejected as
\* MalformedToken before the key set is requested: its verification has
\* made no call of get_signing_keys and no fetch.
C12_HeaderBeforeKeys ==
    \A t \in Threads :
        Done(t) /\ ConfigOk /\ Malformed(th[t].token)
            => /\ th[t].result.kind = "MalformedToken"
               /\ th[t].gets = 0
               /\ th[t].fetches = 0

C14_FailedRefreshEmptiesCache ==
    \A t \in Threads :
        /\ th[t].pc = "g69" /\ th[t].ret = 2
               => cache.keys = NoneVal /\ cache.expires_at = 0
        /\ Done(t) /\ th[t].invals = 1 /\ th[t].result.kind = "FetchError"
               => cache.keys = NoneVal /\ cache.expires_at = 0
        /\ cache.keys = NoneVal => th[t].pc \notin {"g62b", "g64"}

\* A verification that found an unexpired key set cached, missed the kid,
\* cleared the cache and failed to refresh: rejected, the cache empty while
\* the set it held would still have been unexpired.
C14_Witness ==
    /\ Done(1)
    /\ th[1].stale
    /\ th[1].invals = 1
    /\ th[1].fetches = 1
    /\ th[1].result.kind = "FetchError"
    /\ th[1].result.outcome = "Rejected"
    /\ cache.keys = NoneVal
    /\ cache.expires_at = 0

====
